---------------------------- MODULE Spec2Model ----------------------------
(***************************************************************************)
(* The frame loop of FlappySGD (src/Source.cpp, main) as a state machine.  *)
(*                                                                         *)
(* One iteration of the loop is six steps, in the order of the code:       *)
(*   spawn     lines 184-191  advance the timer, maybe append a wall pair  *)
(*   poll      lines 193-196  drain the event queue                        *)
(*   input     lines 198-205  keyboard snapshot, jump                      *)
(*   integrate lines 207-212  player integration and the band check        *)
(*   collide   lines 214-220  walls move, collision test on the DestRects  *)
(*   render    lines 222-251  DestRects recomputed, animation, loop test   *)
(*                                                                         *)
(* Every double of the program is a multiple of 1/2 (positions start as    *)
(* integers, velocities change by 0.5 or are set to -8), so a double d is  *)
(* stored as the integer Scale * d.  GameTime is stored as the number of   *)
(* DeltaTime increments added so far.  The float sum first exceeds 1.0f    *)
(* after the 61st increment and 4.0f after the 241st, as the count first   *)
(* exceeds TicksPerUnit * 1 and TicksPerUnit * 4; it does not exceed 5.0f  *)
(* before the 300th, which is beyond the frames simulated here.            *)
(*                                                                         *)
(* FrameStart (the player and the lost flag as the iteration began),       *)
(* SpawnCount (spawn events so far), PolledQuit (SDL_QUIT seen in this     *)
(* frame's event loop) and the DestRectSet field (the DestRect has been    *)
(* assigned) record history; the program does not read them.               *)
(***************************************************************************)
EXTENDS Integers, Sequences, FiniteSets

VARIABLES pc, Player, Walls, GameTime, Interval, GameLost, game_active,
          KeyboardState, PolledQuit, FrameTime, anim, TextureWidth,
          FrameWidth, FrameStart, SpawnCount,
          RectA, RectB, ResultAB, ResultBA, tested

gameVars == <<pc, Player, Walls, GameTime, Interval, GameLost, game_active,
              KeyboardState, PolledQuit, FrameTime, anim, TextureWidth,
              FrameWidth, FrameStart, SpawnCount>>
testVars == <<RectA, RectB, ResultAB, ResultBA, tested>>
vars == <<gameVars, testVars>>

---------------------------------------------------------------------------
(* Bounds of the model *)

\* frames simulated (the first spawn is in frame 61, a second one can be in
\* frame 241)
MaxFrames == 242
\* the keyboard snapshot may differ from the previous one only in the first
\* InputFrames frames; after that the key stays as it is
InputFrames == 7
\* events returned by SDL_PollEvent in one frame
MaxEvents == 2
\* coordinates of the rectangles the collision test is tried on
RectMax == 2
\* widest sprite sheet tried
MaxSheetWidth == 9

(* Program constants *)
SCREEN_WIDTH == 800
SCREEN_HEIGHT == 600
Scale == 2
TicksPerUnit == 60

\* the double literal n
D(n) == Scale * n

\* values drawn by RandomInterval(3, 6) and, of RandomPos(-150, 150), the
\* two ends and the middle
RandomInterval == 3..6
RandomPos == {-150, 0, 150}

\* sprite sheet widths SDL_QueryTexture may report
SheetWidth == {8}
AnySheetWidth == 1..MaxSheetWidth
SheetHeights == {32}

Rect(x, y, w, h) == [x |-> x, y |-> y, w |-> w, h |-> h]
Vec(x, y) == [x |-> x, y |-> y]

\* values an SDL_Rect that was never assigned may hold
GarbageRects == {Rect(0, 0, 0, 0), Rect(0, 0, SCREEN_WIDTH, SCREEN_HEIGHT)}

---------------------------------------------------------------------------
(* Pure parts of the code *)

\* pos_t operator +
VecAdd(a, b) == Vec(a.x + b.x, a.y + b.y)

\* (int) of a double: truncation toward zero
ToInt(d) == IF d >= 0 THEN d \div Scale ELSE -((-d) \div Scale)

\* the double d / 2
HalfOf(d) == d \div 2

\* the rectangle the render phase gives an object
RectOf(obj) ==
    Rect(ToInt(obj.Position.x - HalfOf(obj.Size.x)),
         ToInt(obj.Position.y - HalfOf(obj.Size.y)),
         ToInt(obj.Size.x), ToInt(obj.Size.y))

CheckCollisionAsym(a, b) ==
    LET leftA == a.x  rightA == a.x + a.w  topA == a.y  bottomA == a.y + a.h
        leftB == b.x  rightB == b.x + b.w  topB == b.y  bottomB == b.y + b.h
    IN  IF bottomA <= topB THEN FALSE
        ELSE IF topA >= bottomB THEN FALSE
        ELSE IF rightA <= leftB THEN FALSE
        ELSE IF leftA >= leftB THEN FALSE
        ELSE TRUE

CheckCollision(a, b) ==
    LET leftA == a.x  rightA == a.x + a.w  topA == a.y  bottomA == a.y + a.h
        leftB == b.x  rightB == b.x + b.w  topB == b.y  bottomB == b.y + b.h
    IN  IF bottomA <= topB THEN FALSE
        ELSE IF topA >= bottomB THEN FALSE
        ELSE IF rightA <= leftB THEN FALSE
        ELSE IF leftA >= rightB THEN FALSE
        ELSE TRUE

\* GetWall leaves DestRect unassigned: garbage is the value it happens to hold
GetWall(Position, Velocity, Size, garbage) ==
    [Position |-> Position, Velocity |-> Velocity, Size |-> Size,
     DestRect |-> garbage, DestRectSet |-> FALSE]

SpawnPairSameSide(pos, g1, g2) ==
    << GetWall(Vec(D(832), D(650) + D(pos)), Vec(D(-1), 0), Vec(D(64), D(512)), g1),
       GetWall(Vec(D(832), D(50) + D(pos)), Vec(D(-1), 0), Vec(D(64), D(512)), g2) >>

\* the two push_back calls of a spawn event
SpawnPair(pos, g1, g2) ==
    << GetWall(Vec(D(832), D(650) + D(pos)), Vec(D(-1), 0), Vec(D(64), D(512)), g1),
       GetWall(Vec(D(832), D(-50) + D(pos)), Vec(D(-1), 0), Vec(D(64), D(512)), g2) >>

\* GameTime > Interval
SpawnDue(time, interval) == time > TicksPerUnit * interval

\* the while loop over SDL_PollEvent
PollResult(active, events) ==
    IF \E i \in 1..Len(events) : events[i] = "SDL_QUIT" THEN FALSE ELSE active

JumpAppliesWhenLost(key, lost) == key

\* if (!GameLost) if (KeyboardState[SDL_SCANCODE_UP])
JumpApplies(key, lost) == (~lost) /\ key

\* Player.Position[1]--; Player.Velocity[1] = -8;
Jumped(p) ==
    [p EXCEPT !.Position = Vec(p.Position.x, p.Position.y - D(1)),
              !.Velocity = Vec(p.Velocity.x, D(-8))]

IntegratedVelocityFirst(p) ==
    [p EXCEPT !.Velocity = VecAdd(p.Velocity, Vec(0, 1)),
              !.Position = VecAdd(p.Position, VecAdd(p.Velocity, Vec(0, 1)))]

\* Position = Position + Velocity; Velocity = Velocity + {0, 0.5}
Integrated(p) ==
    [p EXCEPT !.Position = VecAdd(p.Position, p.Velocity),
              !.Velocity = VecAdd(p.Velocity, Vec(0, 1))]

OutOfBandInclusive(p) ==
    \/ p.Position.y <= -HalfOf(p.Size.y)
    \/ p.Position.y >= D(SCREEN_HEIGHT) + HalfOf(p.Size.y)

\* the condition of the border check
OutOfBand(p) ==
    \/ p.Position.y < -HalfOf(p.Size.y)
    \/ p.Position.y > D(SCREEN_HEIGHT) + HalfOf(p.Size.y)

LostAfterBandAssigned(lost, p) == OutOfBand(p)

\* if (...) GameLost = true;
LostAfterBand(lost, p) == IF OutOfBand(p) THEN TRUE ELSE lost

MovedWallsSkipFirst(walls) ==
    [i \in 1..Len(walls) |->
        IF i = 1 THEN walls[i]
        ELSE [walls[i] EXCEPT !.Position = VecAdd(walls[i].Position, walls[i].Velocity)]]

\* wall.Position = wall.Position + wall.Velocity, for every wall
MovedWalls(walls) ==
    [i \in 1..Len(walls) |->
        [walls[i] EXCEPT !.Position = VecAdd(walls[i].Position, walls[i].Velocity)]]

\* if (CheckCollision(wall.DestRect, Player.DestRect)) GameLost = true;
LostAfterWalls(lost, walls, p) ==
    IF \E i \in 1..Len(walls) : CheckCollision(walls[i].DestRect, p.DestRect)
    THEN TRUE ELSE lost

\* the DestRect assignment of the render phase
Rendered(obj) == [obj EXCEPT !.DestRect = RectOf(obj), !.DestRectSet = TRUE]

\* FrameTime++; if (FrameTime == 5) { ... }
NextFrameTime(ft) == IF ft + 1 = 5 THEN 0 ELSE ft + 1

NextAnimWrapLate(a, ft, fw, tw) ==
    IF ft + 1 = 5
    THEN (IF a.x + fw > tw THEN [a EXCEPT !.x = 0] ELSE [a EXCEPT !.x = a.x + fw])
    ELSE a

\* anim.x += FrameWidth; if (anim.x >= TextureWidth) anim.x = 0; every 5th frame
NextAnim(a, ft, fw, tw) ==
    IF ft + 1 = 5
    THEN (IF a.x + fw >= tw THEN [a EXCEPT !.x = 0] ELSE [a EXCEPT !.x = a.x + fw])
    ELSE a

LoopContinuesUntilLost(active, lost) == active /\ ~lost

\* the condition of the for loop
LoopContinues(active, lost) == active

---------------------------------------------------------------------------
(* State after the declarations of main, before the first iteration *)

InitTest ==
    /\ RectA = Rect(0, 0, 0, 0)
    /\ RectB = Rect(0, 0, 0, 0)
    /\ ResultAB = FALSE
    /\ ResultBA = FALSE
    /\ tested = FALSE

InitGame(widths) ==
    /\ pc = "spawn"
    /\ \E g \in GarbageRects :
          Player = [Position |-> Vec(D(SCREEN_WIDTH \div 4), D(SCREEN_HEIGHT \div 2)),
                    Velocity |-> Vec(0, 0),
                    Size |-> Vec(D(32), D(32)),
                    DestRect |-> g, DestRectSet |-> FALSE]
    /\ Walls = << >>
    /\ GameTime = 0
    /\ Interval = 1
    /\ GameLost = FALSE
    /\ game_active = TRUE
    /\ KeyboardState = FALSE
    /\ PolledQuit = FALSE
    /\ FrameTime = 0
    /\ TextureWidth \in widths
    /\ FrameWidth = TextureWidth \div 4
    /\ \E TextureHeight \in SheetHeights : anim = Rect(0, 0, FrameWidth, TextureHeight)
    /\ FrameStart = [Position |-> Player.Position, Velocity |-> Player.Velocity,
                     GameLost |-> FALSE]
    /\ SpawnCount = 0

Init == InitGame(SheetWidth) /\ InitTest

---------------------------------------------------------------------------
(* The steps of one iteration *)

EventBatches == UNION {[1..n -> {"SDL_QUIT", "other"}] : n \in 0..MaxEvents}

SpawnStep ==
    /\ pc = "spawn"
    /\ GameTime < MaxFrames
    /\ GameTime' = GameTime + 1
    /\ FrameStart' = [Position |-> Player.Position, Velocity |-> Player.Velocity,
                      GameLost |-> GameLost]
    /\ IF SpawnDue(GameTime', Interval)
       THEN \E r \in RandomInterval, pos \in RandomPos, g1 \in GarbageRects, g2 \in GarbageRects :
               /\ Interval' = Interval + r
               /\ Walls' = Walls \o SpawnPair(pos, g1, g2)
               /\ SpawnCount' = SpawnCount + 1
       ELSE UNCHANGED <<Interval, Walls, SpawnCount>>
    /\ pc' = "poll"
    /\ UNCHANGED <<Player, GameLost, game_active, KeyboardState, PolledQuit,
                   FrameTime, anim, TextureWidth, FrameWidth, testVars>>

PollEvents ==
    /\ pc = "poll"
    /\ \E events \in EventBatches :
          /\ game_active' = PollResult(game_active, events)
          /\ PolledQuit' = (\E i \in 1..Len(events) : events[i] = "SDL_QUIT")
    /\ pc' = "input"
    /\ UNCHANGED <<Player, Walls, GameTime, Interval, GameLost, KeyboardState,
                   FrameTime, anim, TextureWidth, FrameWidth, FrameStart,
                   SpawnCount, testVars>>

\* the snapshots SDL_GetKeyboardState may return in this frame
KeySnapshots == IF GameTime <= InputFrames THEN BOOLEAN ELSE {KeyboardState}

SampleInput(snapshots) ==
    /\ pc = "input"
    /\ KeyboardState' \in snapshots
    /\ Player' = IF JumpApplies(KeyboardState', GameLost) THEN Jumped(Player) ELSE Player
    /\ pc' = "integrate"
    /\ UNCHANGED <<Walls, GameTime, Interval, GameLost, game_active, PolledQuit,
                   FrameTime, anim, TextureWidth, FrameWidth, FrameStart,
                   SpawnCount, testVars>>

Input == SampleInput(KeySnapshots)

InputNoKey == SampleInput({FALSE})

Integrate ==
    /\ pc = "integrate"
    /\ Player' = Integrated(Player)
    /\ GameLost' = LostAfterBand(GameLost, Player')
    /\ pc' = "collide"
    /\ UNCHANGED <<Walls, GameTime, Interval, game_active, KeyboardState,
                   PolledQuit, FrameTime, anim, TextureWidth, FrameWidth,
                   FrameStart, SpawnCount, testVars>>

Collide ==
    /\ pc = "collide"
    /\ Walls' = MovedWalls(Walls)
    /\ GameLost' = LostAfterWalls(GameLost, Walls, Player)
    /\ pc' = "render"
    /\ UNCHANGED <<Player, GameTime, Interval, game_active, KeyboardState,
                   PolledQuit, FrameTime, anim, TextureWidth, FrameWidth,
                   FrameStart, SpawnCount, testVars>>

Render ==
    /\ pc = "render"
    /\ Walls' = [i \in 1..Len(Walls) |-> Rendered(Walls[i])]
    /\ FrameTime' = NextFrameTime(FrameTime)
    /\ anim' = NextAnim(anim, FrameTime, FrameWidth, TextureWidth)
    /\ Player' = Rendered(Player)
    /\ pc' = IF LoopContinues(game_active, GameLost) THEN "spawn" ELSE "done"
    /\ UNCHANGED <<GameTime, Interval, GameLost, game_active, KeyboardState,
                   PolledQuit, TextureWidth, FrameWidth, FrameStart,
                   SpawnCount, testVars>>

Next == SpawnStep \/ PollEvents \/ Input \/ Integrate \/ Collide \/ Render

Spec == Init /\ [][Next]_vars

\* the loop with every sheet width and an untouched keyboard
InitAnim == InitGame(AnySheetWidth) /\ InitTest

NextAnimation == SpawnStep \/ PollEvents \/ InputNoKey \/ Integrate \/ Collide \/ Render

SpecAnim == InitAnim /\ [][NextAnimation]_vars

---------------------------------------------------------------------------
(* CheckCollision on its own, on every pair of small rectangles *)

TestRects == {Rect(x, y, w, h) : x \in 0..RectMax, y \in 0..RectMax,
                                 w \in -1..RectMax, h \in -1..RectMax}

InitCollision ==
    /\ InitGame(SheetWidth)
    /\ Player.DestRect = Rect(0, 0, 0, 0)
    /\ RectA \in TestRects
    /\ RectB \in TestRects
    /\ ResultAB = FALSE
    /\ ResultBA = FALSE
    /\ tested = FALSE

TestCollision ==
    /\ ~tested
    /\ ResultAB' = CheckCollision(RectA, RectB)
    /\ ResultBA' = CheckCollision(RectB, RectA)
    /\ tested' = TRUE
    /\ UNCHANGED <<RectA, RectB, gameVars>>

NextCollision == TestCollision

SpecCollision == InitCollision /\ [][NextCollision]_vars


---------------------------------------------------------------------------
(* Properties *)

\* the frame whose start FrameStart records has been integrated
FrameIntegrated ==
    \/ pc \in {"collide", "render", "done"}
    \/ pc = "spawn" /\ GameTime > 0

\* the jump was applied in the frame FrameStart records
JumpFrame == KeyboardState /\ ~FrameStart.GameLost

\* C1 (as claimed): in every frame, whatever the keyboard state, the velocity
\* at the end of the frame is the velocity at its start plus (0, 0.5) and the
\* position at the end is the position at its start plus the velocity at its
\* start.
C1_IntegrationFromFrameStart ==
    FrameIntegrated =>
        /\ Player.Velocity = VecAdd(FrameStart.Velocity, Vec(0, 1))
        /\ Player.Position = VecAdd(FrameStart.Position, FrameStart.Velocity)

\* C1 (amended): in every frame, lost or not, integration adds to the position
\* the velocity as it stands after input sampling and then adds (0, 0.5) to
\* that velocity: in a frame without a jump this is the law from the values
\* at the start of the frame, and in a jump frame the end velocity is
\* (vx, -7.5) and the end position is the start position plus (vx, -9).
C1_IntegrationAfterInput ==
    FrameIntegrated =>
        LET p0 == IF JumpFrame
                  THEN Vec(FrameStart.Position.x, FrameStart.Position.y - D(1))
                  ELSE FrameStart.Position
            v0 == IF JumpFrame
                  THEN Vec(FrameStart.Velocity.x, D(-8))
                  ELSE FrameStart.Velocity
        IN  /\ Player.Velocity = Vec(v0.x, v0.y + 1)
            /\ Player.Position = Vec(p0.x + v0.x, p0.y + v0.y)

\* a jump frame of a falling player has been integrated: the end velocity is
\* (0, -7.5) and the player is 9 above where the frame started
C1_Witness ==
    /\ pc = "render"
    /\ JumpFrame
    /\ FrameStart.Velocity.y > 0
    /\ Player.Velocity.y = D(-8) + 1
    /\ Player.Position.y = FrameStart.Position.y - D(9)

WallPairs == 1..(Len(Walls) \div 2)

PairShape(w1, w2) ==
    /\ w1.Position.x = w2.Position.x
    /\ w1.Velocity = Vec(D(-1), 0) /\ w2.Velocity = Vec(D(-1), 0)
    /\ w1.Size = Vec(D(64), D(512)) /\ w2.Size = Vec(D(64), D(512))
    /\ \E offset \in -150..150 :
          /\ w1.Position.y = D(650 + offset)
          /\ w2.Position.y = D(-50 + offset)

\* a step of a frame in which game_time exceeds interval appends two walls at
\* x = 832, and no other step changes the length of the list
SpawnAppends ==
    /\ (pc = "spawn" /\ GameTime' > TicksPerUnit * Interval) =>
          /\ Len(Walls') = Len(Walls) + 2
          /\ Walls'[Len(Walls) + 1].Position.x = D(832)
          /\ Walls'[Len(Walls) + 2].Position.x = D(832)
    /\ ~(pc = "spawn" /\ GameTime' > TicksPerUnit * Interval) =>
          Len(Walls') = Len(Walls)

\* C2 (as claimed): for every pair appended by a spawn event, wall1 the first
\* and wall2 the second obstacle appended, wall2.y - wall1.y = 700, at the
\* spawn and in every later frame.
C2_SecondMinusFirstIs700 ==
    \A k \in WallPairs :
        Walls[2 * k].Position.y - Walls[2 * k - 1].Position.y = D(700)

\* C2 (amended): every spawn event appends exactly two obstacles, both at
\* x = 832, with velocity (-1, 0) and size (64, 512), at y = 650 + offset and
\* y = -50 + offset for one offset of [-150, 150], so that
\* wall1.y - wall2.y = 700 (wall2.y - wall1.y = -700) at the spawn and in
\* every later frame.
C2_SpawnPairing ==
    /\ [](/\ Len(Walls) % 2 = 0
          /\ \A k \in WallPairs :
                /\ PairShape(Walls[2 * k - 1], Walls[2 * k])
                /\ Walls[2 * k - 1].Position.y - Walls[2 * k].Position.y = D(700))
    /\ [][SpawnAppends]_vars

\* two pairs are in the list, the first spawned with offset 0 and moved since
C2_Witness ==
    /\ Len(Walls) = 4
    /\ Walls[1].Position.y = D(650)
    /\ Walls[2].Position.y = D(-50)
    /\ Walls[1].Position.x < D(832) - D(100)
    /\ Walls[3].Position.y # Walls[1].Position.y

\* C3: once the lost flag is true it stays true, whatever follows.
C3_LossMonotonic == [][GameLost => GameLost']_vars

\* the player is lost and back inside the band, no obstacle of the list
\* overlaps it, and the up key is held
C3_Witness ==
    /\ GameLost
    /\ KeyboardState
    /\ Player.Position.y > D(0)
    /\ Player.Position.y < D(SCREEN_HEIGHT)
    /\ Len(Walls) = 2
    /\ \A i \in 1..Len(Walls) : ~CheckCollision(Walls[i].DestRect, Player.DestRect)
    /\ pc = "render"

\* the overlap test as the specification words it
Overlap(a, b) ==
    /\ a.y + a.h > b.y
    /\ a.y < b.y + b.h
    /\ a.x + a.w > b.x
    /\ a.x < b.x + b.w

\* C4: the lost flag changes from false to true in a frame if and only if, in
\* that frame, the player's y after integration is below -16 or above 616 (y
\* exactly -16 or 616 is inside the band) or the collision test is positive for
\* at least one obstacle of the list.  (Checked before the render step, where
\* the DestRects still are the ones the collision test read.)
C4_LossTrigger ==
    (pc = "render" /\ ~FrameStart.GameLost) =>
        (GameLost <=>
            \/ Player.Position.y < D(-16)
            \/ Player.Position.y > D(616)
            \/ \E i \in 1..Len(Walls) : Overlap(Walls[i].DestRect, Player.DestRect))

\* a player at y exactly 616 after integration is not lost
C4_Witness ==
    /\ pc = "render"
    /\ ~FrameStart.GameLost
    /\ Player.Position.y = D(616)
    /\ ~GameLost

\* C5: in every frame the jump (y decremented by 1, vertical velocity set to
\* -8, before integration) happens if and only if the up key is held in the
\* frame's snapshot and the lost flag is false when input is sampled; a held
\* key re-triggers it every frame, and once lost it changes nothing.
C5_JumpRule ==
    [][pc = "input" =>
          /\ pc' = "integrate"
          /\ IF KeyboardState' /\ ~GameLost
             THEN /\ Player'.Position = Vec(Player.Position.x, Player.Position.y - D(1))
                  /\ Player'.Velocity = Vec(Player.Velocity.x, D(-8))
             ELSE Player' = Player]_vars

\* the key is held while the player is lost: input sampling has left position
\* and velocity as they were at the start of the frame
C5_Witness ==
    /\ pc = "integrate"
    /\ KeyboardState
    /\ GameLost
    /\ Player.Velocity = FrameStart.Velocity
    /\ Player.Velocity.y # D(-8)

\* C6 (as claimed): for every sheet width the x offset of the animation
\* rectangle takes exactly the values 0, frame_width, 2 * frame_width,
\* 3 * frame_width (frame_width = sheet width / 4 by integer division).
C6_FourPositions ==
    anim.x \in {0, FrameWidth, 2 * FrameWidth, 3 * FrameWidth}

\* frames rendered so far
RenderedFrames == IF pc \in {"spawn", "done"} THEN GameTime ELSE GameTime - 1

\* C6 (amended): for every sheet width that is a positive multiple of 4, the
\* x offset takes exactly the values 0, frame_width, 2 * frame_width,
\* 3 * frame_width, cyclically in that order, one step on every 5th rendered
\* frame, back to 0 when the next step would reach the sheet's full width:
\* after n rendered frames it is ((n / 5) mod 4) * frame_width.
C6_AnimationWrap ==
    (TextureWidth % 4 = 0) =>
        /\ FrameWidth * 4 = TextureWidth
        /\ anim.x = ((RenderedFrames \div 5) % 4) * FrameWidth

\* a sheet of width 8 after 20 rendered frames, wrapped back from 6 to 0
C6_Witness ==
    /\ TextureWidth = 8
    /\ RenderedFrames = 20
    /\ anim.x = 0

\* C7: CheckCollision(A, B) = CheckCollision(B, A) for all rectangles A, B.
C7_CollisionSymmetric == tested => (ResultAB = ResultBA)

\* two different rectangles were tested and collide
C7_Witness == tested /\ ResultAB /\ RectA # RectB /\ RectA.x < RectB.x

\* C8: at the collision step, for every obstacle of the list, the obstacle's
\* rectangle and the player's rectangle have been assigned, in the previous
\* frame's render phase, from the entity's position and size.
C8_RectsAssignedBeforeRead ==
    pc = "collide" =>
        \A i \in 1..Len(Walls) :
            /\ Player.DestRectSet
            /\ Walls[i].DestRectSet
            /\ Walls[i].DestRect = RectOf(Walls[i])

\* C9: the loop exits if and only if a quit request was polled, at the end of
\* the frame that polled it, after that frame's input, integration, collision
\* and render steps; nothing else, the lost flag included, ends it.
C9_Termination ==
    [][/\ (pc # "done" /\ pc' = "done") <=> (pc = "render" /\ PolledQuit)
       /\ pc = "poll" => pc' = "input"
       /\ pc = "input" => pc' = "integrate"
       /\ pc = "integrate" => pc' = "collide"
       /\ pc = "collide" => pc' = "render"
       /\ (pc = "render" /\ ~PolledQuit) => pc' = "spawn"]_vars

\* the loop has ended after a frame that started with the player lost
C9_Witness ==
    /\ pc = "done"
    /\ PolledQuit
    /\ FrameStart.GameLost
    /\ Player.DestRect = RectOf(Player)

\* C10: no obstacle is ever removed; the list length changes only by +2, in a
\* spawn step, and equals twice the number of spawn events so far; every
\* obstacle in the list moves left by exactly 1 per frame, lost or not.
C10_ListGrowth ==
    /\ [](Len(Walls) = 2 * SpawnCount)
    /\ [][/\ Len(Walls') \in {Len(Walls), Len(Walls) + 2}
          /\ Len(Walls') # Len(Walls) => (pc = "spawn" /\ SpawnCount' = SpawnCount + 1)
          /\ SpawnCount' \in {SpawnCount, SpawnCount + 1}
          /\ \A i \in 1..Len(Walls) :
                /\ Walls'[i].Position.y = Walls[i].Position.y
                /\ Walls'[i].Position.x =
                      IF pc = "collide" THEN Walls[i].Position.x - D(1)
                      ELSE Walls[i].Position.x]_vars

\* four obstacles from two spawn events, the older pair 181 to the left of
\* its spawn position, the player lost
C10_Witness ==
    /\ Len(Walls) = 4
    /\ SpawnCount = 2
    /\ GameLost
    /\ Walls[1].Position.x = D(832) - D(181)
    /\ Walls[4].Position.x = D(832) - D(1)

===========================================================================
